---- MODULE Spec2Model ----
(***************************************************************************)
(* State-machine model of the CryptoCell 310 driver of the nRF52840 chip   *)
(* (chips/nrf52840/src/cryptocell): the reference-counted power/enable     *)
(* controller, the incremental hash/HMAC engine with its block-processing  *)
(* primitive, the AES facade, the entropy facade and the shared interrupt  *)
(* handler.                                                                *)
(*                                                                         *)
(* A machine value m is a record [cc, regs, obs]:                          *)
(*   cc   - the fields of struct CryptoCell310 (mod.rs:137-158);           *)
(*   regs - the memory-mapped registers the driver reads and writes;       *)
(*   obs  - what the operation in progress did that a caller or a mock     *)
(*          register backend can observe: register writes in order, the    *)
(*          block-processing calls, the client callbacks, the value        *)
(*          returned and the output buffer.                                *)
(* Every driver function is an operator from machines to machines, written *)
(* statement by statement from its Rust body; the actions apply them to    *)
(* the variables.                                                          *)
(*                                                                         *)
(* A 32-bit word is a pair <<hi, lo>> of 16-bit halves (TLC integers are   *)
(* 32-bit signed, the SHA constants are not).  A byte is 0..255.           *)
(***************************************************************************)
EXTENDS Integers, Sequences, FiniteSets, Bags, TLC

VARIABLES
    cc,     \* struct CryptoCell310
    regs,   \* hardware registers
    obs,    \* observations of the last operation
    op,     \* the last operation: name, argument, count, power and size it found
    sess,   \* history of the hash session since the last Configure
    acq,    \* stack of (usage_count, power) snapshots of outstanding enable()s
    nops,   \* number of operations performed so far
    pc,     \* position of the caller inside a block-processing call
    hw      \* the engine's own state: the DMA transfer in flight

vars == <<cc, regs, obs, op, sess, acq, nops, pc, hw>>

-----------------------------------------------------------------------------
(* Bounds of the exploration *)

\* operations per behaviour of Spec (every operation of the driver)
MaxOps == 2
\* operations per behaviour of SpecHash (power controller and hash engine)
MaxHashOps == 3
\* operations per behaviour of SpecChunk (Configure, add_data, run)
MaxChunkOps == 4
\* usage_count values explored through the public enable()
MaxUsage == 3

-----------------------------------------------------------------------------
(* Program constants *)

\* hash_data_queue: Cell<[u8; 64]>, the hash block size
BlockLen == 64
\* digest: &'static mut [u8; 32]
DigestBufLen == 32
\* hil::symmetric_encryption::AES128_KEY_SIZE / AES128_BLOCK_SIZE
AES128_KEY_SIZE == 16
AES128_BLOCK_SIZE == 16

\* enum DigestAlgorithm
Md5 == 0
Sha1 == 1
Sha224 == 10
Sha256 == 2

\* bitfields::CryptoMode::MODE
CryptoModeAes == 1
CryptoModeHash == 7

MD5_INIT_VALUE ==
    << <<\H6745, \H2301>>, <<\HEFCD, \HAB89>>, <<\H98BA, \HDCFE>>, <<\H1032, \H5476>> >>
SHA1_INIT_VALUE ==
    << <<\H6745, \H2301>>, <<\HEFCD, \HAB89>>, <<\H98BA, \HDCFE>>, <<\H1032, \H5476>>,
       <<\HC3D2, \HE1F0>> >>
SHA224_INIT_VALUE ==
    << <<\HC105, \H9ED8>>, <<\H367C, \HD507>>, <<\H3070, \HDD17>>, <<\HF70E, \H5939>>,
       <<\HFFC0, \H0B31>>, <<\H6858, \H1511>>, <<\H64F9, \H8FA7>>, <<\HBEFA, \H4FA4>> >>
SHA256_INIT_VALUE ==
    << <<\H6A09, \HE667>>, <<\HBB67, \HAE85>>, <<\H3C6E, \HF372>>, <<\HA54F, \HF53A>>,
       <<\H510E, \H527F>>, <<\H9B05, \H688C>>, <<\H1F83, \HD9AB>>, <<\H5BE0, \HCD19>> >>

\* bitfields::Interrupts, the 8 cause bits in register order
InterruptBits ==
    << "SRAM_TO_DIN", "DOUT_TO_SRAM", "MEM_TO_DIN", "DOUT_TO_MEM",
       "AXI_ERROR", "PKA_EXP", "RNG", "SYM_DMA_COMPLETED" >>

-----------------------------------------------------------------------------
(* Bytes, words and slices *)

ZeroWord == <<0, 0>>

\* the sequence s as an explicit tuple (a function written [i \in 1..n |-> e]
\* is otherwise evaluated again at every use)
Seq1(s) == s \o <<>>

Zeros(n) == Seq1([i \in 1..n |-> 0])

\* s[a..b) of a Rust slice, 0-based, as a sequence
Slice(s, a, b) == SubSeq(s, a + 1, b)

\* dst[at..at+len(src)].copy_from_slice(src), at 0-based
CopyInto(dst, at, src) ==
    SubSeq(dst, 1, at) \o src \o SubSeq(dst, at + Len(src) + 1, Len(dst))

RECURSIVE Xor(_, _)
\* bitwise exclusive or of two naturals
Xor(a, b) ==
    IF a = 0 THEN b
    ELSE IF b = 0 THEN a
    ELSE (((a % 2) + (b % 2)) % 2) + 2 * Xor(a \div 2, b \div 2)

\* the little-endian bytes of a word
to_le_bytes(w) == << w[2] % 256, w[2] \div 256, w[1] % 256, w[1] \div 256 >>

\* u32::to_be_bytes
to_be_bytes(w) == << w[1] \div 256, w[1] % 256, w[2] \div 256, w[2] % 256 >>

\* the little-endian assembly of 4 bytes into a register word (set_key, set_iv)
le_word(b0, b1, b2, b3) == << b3 * 256 + b2, b1 * 256 + b0 >>

-----------------------------------------------------------------------------
(* The hash hardware.  The silicon is not part of the repository: it is    *)
(* modelled from the register documentation.  HASH_H0..H7 hold the running *)
(* state, HASH_CUR_LEN the number of bytes absorbed, DIN feeds data,       *)
(* AUTO_HW_PADDING pads the data of the descriptor being fed, HASH_PAD_CFG *)
(* DO_PAD pads a zero-byte tail.  The compression function is a            *)
(* position-sensitive mixing function standing for the real one: every     *)
(* state word of the mode and every byte of the block enter the result.    *)

\* number of state words the mode uses
HwStateWords(mode) ==
    IF mode = Md5 THEN 4 ELSE IF mode = Sha1 THEN 5 ELSE 8

\* the sum over i in lo..hi of s[i] weighted by its position (the sum of a
\* function's values is the cardinality of the bag it denotes)
HwSum(s, q, lo, hi) ==
    IF lo > hi THEN 0
    ELSE BagCardinality([i \in lo..hi |->
             1 + ((s[i] * ((i * i * q + 13 * i + 5) % 32749)) % 32749)]) % 32749

HwMix(mode, q, ws, block) ==
    LET t == (mode + 1 + HwSum(ws, q, 1, Len(ws)) + 3 * HwSum(block, q + 1, 1, Len(block))) % 32749
    IN  (t * t + 11 * t + q) % 32749

HwRound(mode, h, block) ==
    LET n  == HwStateWords(mode)
        ws == Seq1([i \in 1..(2 * n) |-> h[(i + 1) \div 2][2 - (i % 2)]])
        a1 == HwMix(mode, 7, ws, block)
        a2 == HwMix(mode, 29, ws, block)
    IN  Seq1([i \in 1..8 |->
            IF i <= n
            THEN << (a1 * 3 + 257 * i) % 65536, (a2 * 5 + 263 * i) % 65536 >>
            ELSE h[i]])

\* one compression; the state and the block are evaluated once
HwCompress(mode, h, block) ==
    CHOOSE out \in {HwRound(mode, hv, bv) : hv \in {h}, bv \in {block}} : TRUE

RECURSIVE HwAbsorb(_, _, _)
\* the state after absorbing the whole 64-byte blocks of data
HwAbsorb(mode, h, data) ==
    IF Len(data) < BlockLen THEN h
    ELSE HwAbsorb(mode, HwCompress(mode, h, Slice(data, 0, BlockLen)),
                  Slice(data, BlockLen, Len(data)))

\* the 64-bit bit count of the standard padding: big-endian for the SHA
\* family, little-endian for MD5 (total stays below 2^28 here)
HwLenBytes(mode, total) ==
    LET bits == total * 8
        be   == << 0, 0, 0, 0, (bits \div 16777216) % 256, (bits \div 65536) % 256,
                   (bits \div 256) % 256, bits % 256 >>
    IN  IF mode = Md5 THEN Seq1([i \in 1..8 |-> be[9 - i]]) ELSE be

\* the standard Merkle-Damgard padding that follows a tail of tailLen bytes of
\* a message of total bytes
HwPadding(mode, tailLen, total) ==
    LET z == (2 * BlockLen - 9 - (tailLen % BlockLen)) % BlockLen
    IN  <<128>> \o Zeros(z) \o HwLenBytes(mode, total)

\* the engine with no transfer in flight
HwIdle == [dma |-> "idle", data |-> <<>>]

\* the engine's effect on the registers when a DMA descriptor over data is
\* submitted: absorb (and pad when AUTO_HW_PADDING is armed), advance the
\* length counter by the bytes fed, raise MEM_TO_DIN; the busy flags stay
\* up until the engine is done
HwDmaIn(r, data) ==
    LET total == r.hash_len_lsb + Len(data)
        fed   == IF r.auto_hw_padding = 1
                 THEN data \o HwPadding(r.control, Len(data), total)
                 ELSE data
    IN  [r EXCEPT !.hash = HwAbsorb(r.control, r.hash, fed),
                  !.hash_len_lsb = total,
                  !.interrupts = @ \cup {"MEM_TO_DIN"},
                  !.crypto_busy = 1, !.mem_dma_busy = 1]

\* the engine's effect when HASH_PAD_CFG.DO_PAD is set: pad a zero-byte tail
\* for the length the counter holds
HwDoPad(r) ==
    [r EXCEPT !.hash = HwAbsorb(r.control, r.hash,
                                HwPadding(r.control, 0, r.hash_len_lsb)),
              !.crypto_busy = 1]

-----------------------------------------------------------------------------
(* Register access *)

\* one register write on the register file.  idx is the Rust index of an
\* array register, -1 for a scalar.  INTERRUPT_CLEAR is write-one-to-clear
\* on the status register.
RegAfter(r, reg, idx, val) ==
    IF reg = "interrupt_clear"
    THEN [r EXCEPT !.interrupts = @ \ val]
    ELSE IF idx = -1
    THEN [r EXCEPT ![reg] = val]
    ELSE [r EXCEPT ![reg][idx + 1] = val]

RECURSIVE RegsAfter(_, _, _)
\* the register file after the first k writes of ws
RegsAfter(r, ws, k) ==
    IF k = 0 THEN r
    ELSE RegAfter(RegsAfter(r, ws, k - 1), ws[k][1], ws[k][2], ws[k][3])

\* the writes ws as observed: each with the power state it was made in
WriteLog(r, ws) ==
    [k \in 1..Len(ws) |-> [reg |-> ws[k][1], idx |-> ws[k][2], val |-> ws[k][3],
                           power |-> RegsAfter(r, ws, k - 1).power_enable]]

\* the writes ws = << <<reg, idx, val>>, ... >> made in order
WriteSeq(m, ws) ==
    [m EXCEPT !.regs = RegsAfter(@, ws, Len(ws)),
              !.obs.writes = @ \o WriteLog(m.regs, ws)]

\* one register write: the register takes the value and the write is
\* observed
RegWrite(m, reg, idx, val) == WriteSeq(m, << <<reg, idx, val>> >>)

\* the registers after reset
RegsInit ==
    [ power_enable    |-> 0,
      endian          |-> 0,
      dma_clk_enable  |-> 0,
      hash_clk_enable |-> 0,
      crypto_ctl      |-> 0,
      interrupt_mask  |-> {},
      interrupts      |-> {},
      hash_busy       |-> 0,
      crypto_busy     |-> 0,
      mem_dma_busy    |-> 0,
      hash            |-> Seq1([i \in 1..8 |-> ZeroWord]),
      hash_len_lsb    |-> 0,
      hash_len_msb    |-> 0,
      control         |-> 0,
      padding         |-> 0,
      auto_hw_padding |-> 0,
      pad_config      |-> 0,
      src_lli_word0   |-> <<>>,
      src_lli_word1   |-> 0,
      key0            |-> Seq1([i \in 1..4 |-> ZeroWord]),
      iv0             |-> Seq1([i \in 1..4 |-> ZeroWord]),
      ctr0            |-> Seq1([i \in 1..4 |-> ZeroWord]),
      aes_busy        |-> 0,
      aes_control     |-> 0,
      cmac_init       |-> 0,
      remaining_bytes |-> 0 ]

\* CryptoCell310::new()
new ==
    [ usage_count        |-> 0,
      current_op         |-> "Idle",
      aes_client         |-> FALSE,
      trng_client        |-> FALSE,
      sha256_client      |-> FALSE,
      hash_digest_size   |-> 0,
      hash_algo          |-> [mode |-> "Invalid", alg |-> -1],
      hash_ctx           |-> Seq1([i \in 1..8 |-> ZeroWord]),
      hash_hmac_opad_ctx |-> Seq1([i \in 1..8 |-> ZeroWord]),
      hash_total_size    |-> 0,
      hash_data_queue    |-> Zeros(BlockLen),
      hash_data_buff     |-> <<>>,
      hash_digest        |-> <<>> ]

\* nothing observed yet
ObsInit ==
    [ writes |-> <<>>, calls |-> <<>>, callbacks |-> <<>>, ret |-> <<"none">>, out |-> <<>>,
      reads |-> <<>> ]

-----------------------------------------------------------------------------
(* Power/enable controller, mod.rs *)

\* enable() that takes the count for the power state: it powers on when the
\* count it finds is 1, so the first user runs on a dark engine
enable_off_by_one(m) ==
    LET on == IF m.cc.usage_count = 1
              THEN WriteSeq(m, << <<"power_enable", -1, 1>>,
                                  <<"endian", -1, 0>>,
                                  <<"dma_clk_enable", -1, 1>>,
                                  <<"interrupt_mask", -1, {"AXI_ERROR", "PKA_EXP", "RNG"}>> >>)
              ELSE m
    IN  [on EXCEPT !.cc.usage_count = @ + 1]

\* enable() that runs the power-on writes on every call
enable_always_powers(m) ==
    [WriteSeq(m, << <<"power_enable", -1, 1>>,
                    <<"endian", -1, 0>>,
                    <<"dma_clk_enable", -1, 1>>,
                    <<"interrupt_mask", -1, {"AXI_ERROR", "PKA_EXP", "RNG"}>> >>)
     EXCEPT !.cc.usage_count = @ + 1]

\* enable() that sets every source's bit in the interrupt mask register
enable_all_sources(m) ==
    LET on == IF m.cc.usage_count = 0
              THEN WriteSeq(m, << <<"power_enable", -1, 1>>,
                                  <<"endian", -1, 0>>,
                                  <<"dma_clk_enable", -1, 1>>,
                                  <<"interrupt_mask", -1,
                                    {InterruptBits[k] : k \in 1..Len(InterruptBits)}>> >>)
              ELSE m
    IN  [on EXCEPT !.cc.usage_count = @ + 1]

\* pub fn enable(&self)
enable(m) ==
    LET on == IF m.cc.usage_count = 0
              THEN WriteSeq(m, << <<"power_enable", -1, 1>>,
                                  <<"endian", -1, 0>>,
                                  <<"dma_clk_enable", -1, 1>>,
                                  <<"interrupt_mask", -1, {"AXI_ERROR", "PKA_EXP", "RNG"}>> >>)
              ELSE m
    IN  [on EXCEPT !.cc.usage_count = @ + 1]

\* disable() without the reference count: every release powers off
disable_uncounted(m) ==
    IF m.cc.usage_count = 0 THEN m
    ELSE WriteSeq([m EXCEPT !.cc.usage_count = @ - 1],
                  << <<"interrupt_mask", -1, {}>>,
                     <<"power_enable", -1, 0>>,
                     <<"dma_clk_enable", -1, 0>> >>)

\* disable() without the early return at count 0
disable_unguarded(m) ==
    LET dec == [m EXCEPT !.cc.usage_count = @ - 1]
    IN  IF dec.cc.usage_count = 0
        THEN WriteSeq(dec, << <<"interrupt_mask", -1, {}>>,
                              <<"power_enable", -1, 0>>,
                              <<"dma_clk_enable", -1, 0>> >>)
        ELSE dec

\* pub fn disable(&self)
disable(m) ==
    IF m.cc.usage_count = 0 THEN m
    ELSE LET dec == [m EXCEPT !.cc.usage_count = @ - 1]
         IN  IF dec.cc.usage_count = 0
             THEN WriteSeq(dec, << <<"interrupt_mask", -1, {}>>,
                                   <<"power_enable", -1, 0>>,
                                   <<"dma_clk_enable", -1, 0>> >>)
             ELSE dec

-----------------------------------------------------------------------------
(* Block-processing primitive, mod.rs *)

\* the set-up writes with the running state loaded in increasing index order
hash_setup_forward(m) ==
    WriteSeq(m, << <<"hash_clk_enable", -1, 1>>,
                   <<"crypto_ctl", -1, CryptoModeHash>>,
                   <<"padding", -1, 1>>,
                   <<"hash_len_lsb", -1, m.cc.hash_total_size>>,
                   <<"hash_len_msb", -1, 0>>,
                   <<"control", -1, IF m.cc.hash_algo.mode \in {"Digest", "Hmac"}
                                    THEN m.cc.hash_algo.alg ELSE 2>> >>
                \o [k \in 1..8 |-> <<"hash", k - 1, m.cc.hash_ctx[k]>>])

\* cc_hash_update, the set-up writes: clock, crypto mode, padding, length
\* registers, algorithm and the running state in reverse index order.
\* Sizes stay below 2^31, so size >> 32 is 0.
hash_setup(m) ==
    WriteSeq(m, << <<"hash_clk_enable", -1, 1>>,
                   <<"crypto_ctl", -1, CryptoModeHash>>,
                   <<"padding", -1, 1>>,
                   <<"hash_len_lsb", -1, m.cc.hash_total_size>>,
                   <<"hash_len_msb", -1, 0>>,
                   <<"control", -1, IF m.cc.hash_algo.mode \in {"Digest", "Hmac"}
                                    THEN m.cc.hash_algo.alg ELSE 2>> >>
                \o [k \in 1..8 |-> <<"hash", 8 - k, m.cc.hash_ctx[9 - k]>>])

\* the DMA descriptor of data and the transfer it starts
hash_dma(m, data) ==
    [m EXCEPT !.regs = HwDmaIn(WriteSeq(m, << <<"src_lli_word0", -1, data>>,
                                             <<"src_lli_word1", -1, Len(data)>> >>).regs,
                               data),
              !.obs.writes = @ \o << [reg |-> "src_lli_word0", idx |-> -1, val |-> data,
                                      power |-> m.regs.power_enable],
                                     [reg |-> "src_lli_word1", idx |-> -1, val |-> Len(data),
                                      power |-> m.regs.power_enable] >>]

\* HASH_PAD_CFG.DO_PAD = 1 has been written: the engine pads
hash_do_pad(m) == [m EXCEPT !.regs = HwDoPad(@)]

\* "Process data" that arms the automatic padding for every non-empty slice
hash_process_always_pads(m, data, is_last_block) ==
    IF Len(data) > 0
    THEN RegWrite(hash_dma(RegWrite(m, "auto_hw_padding", -1, 1), data),
                  "interrupt_clear", -1, {"MEM_TO_DIN"})
    ELSE hash_do_pad(RegWrite(m, "pad_config", -1, 1))

\* cc_hash_update, "Process data".  The busy-wait loops read flags the idle
\* engine holds clear, and the DMA raises MEM_TO_DIN.
hash_process(m, data, is_last_block) ==
    IF Len(data) > 0
    THEN RegWrite(hash_dma(IF is_last_block
                           THEN RegWrite(m, "auto_hw_padding", -1, 1) ELSE m,
                           data),
                  "interrupt_clear", -1, {"MEM_TO_DIN"})
    ELSE hash_do_pad(RegWrite(m, "pad_config", -1, 1))

\* while crypto_busy {} while mem_dma_busy {}: the loops return when the
\* engine has dropped both flags
hash_wait(m) == [m EXCEPT !.regs.crypto_busy = 0, !.regs.mem_dma_busy = 0]

\* cc_hash_update that stops the hash module before it reads the state back
hash_readback_after_stop(m) ==
    LET off == WriteSeq(m, << <<"padding", -1, 1>>,
                              <<"auto_hw_padding", -1, 0>>,
                              <<"pad_config", -1, 0>>,
                              <<"hash_clk_enable", -1, 0>> >>)
    IN  [off EXCEPT !.cc.hash_ctx = off.regs.hash,
                    !.cc.hash_total_size = off.regs.hash_len_lsb,
                    !.obs.reads = Append(@, [at |-> Len(off.obs.writes),
                                             ctx |-> off.regs.hash,
                                             len |-> off.regs.hash_len_lsb,
                                             clk |-> off.regs.hash_clk_enable,
                                             busy |-> <<off.regs.crypto_busy, off.regs.mem_dma_busy>>,
                                             power |-> off.regs.power_enable])]

\* cc_hash_update, "Update context and total size" and the writes of
\* "Disable HASH module" up to its wait on crypto_busy.
\* obs.reads notes where in the write log the registers were read, what
\* was read, and the clock and power state at that moment.
hash_restore(m) ==
    WriteSeq([m EXCEPT !.cc.hash_ctx = m.regs.hash,
                       !.cc.hash_total_size = m.regs.hash_len_lsb,
                       !.obs.reads = Append(@, [at |-> Len(m.obs.writes),
                                                ctx |-> m.regs.hash,
                                                len |-> m.regs.hash_len_lsb,
                                                clk |-> m.regs.hash_clk_enable,
                                                busy |-> <<m.regs.crypto_busy, m.regs.mem_dma_busy>>,
                                                power |-> m.regs.power_enable])],
             << <<"padding", -1, 1>>,
                <<"auto_hw_padding", -1, 0>>,
                <<"pad_config", -1, 0>> >>)

\* hash_clk_enable.write(Task::ENABLE::CLEAR)
hash_clk_off(m) == RegWrite(m, "hash_clk_enable", -1, 0)

\* cc_hash_update from "Update context and total size" to the stop of the
\* hash clock
hash_readback(m) == hash_clk_off(hash_restore(m))

\* the call as observed: its arguments, the length and state it started
\* from, the usage count around it, its register writes (first..last of
\* the write log)
hash_call(m, after, data, is_last_block) ==
    [after EXCEPT !.obs.calls =
        Append(@, [data |-> data, is_final |-> is_last_block,
                   len |-> m.cc.hash_total_size,
                   ctx |-> m.cc.hash_ctx,
                   alg |-> IF m.cc.hash_algo.mode \in {"Digest", "Hmac"}
                           THEN m.cc.hash_algo.alg ELSE 2,
                   usage_in |-> m.cc.usage_count,
                   usage_out |-> after.cc.usage_count,
                   first |-> Len(m.obs.writes) + 1,
                   last |-> Len(after.obs.writes)])]

\* self.current_op.set(OperationMode::Hash)
hash_begin(m) == [m EXCEPT !.cc.current_op = "Hash"]

\* cc_hash_update that returns without self.disable()
cc_hash_update_keeps_power(m, data, is_last_block) ==
    hash_call(m,
              hash_readback(hash_wait(hash_process(hash_setup(hash_begin(enable(m))),
                                                   data, is_last_block))),
              data, is_last_block)

\* fn cc_hash_update(&self, data: &[u8], is_last_block: bool)
cc_hash_update(m, data, is_last_block) ==
    hash_call(m,
              disable(hash_readback(hash_wait(hash_process(hash_setup(hash_begin(enable(m))),
                                                           data, is_last_block)))),
              data, is_last_block)

-----------------------------------------------------------------------------
(* Hash/HMAC engine, hash.rs *)

\* Configure that forgets hash_total_size.set(0)
set_mode_digest_keeps_size(m, alg, init) ==
    [m EXCEPT !.cc.hash_algo = [mode |-> "Digest", alg |-> alg],
              !.cc.hash_digest_size = Len(init),
              !.cc.hash_ctx = CopyInto(@, 0, init),
              !.obs.ret = <<"Ok">>]

\* Configure that takes the digest size in bytes
set_mode_digest_size_in_bytes(m, alg, init) ==
    [m EXCEPT !.cc.hash_algo = [mode |-> "Digest", alg |-> alg],
              !.cc.hash_digest_size = 4 * Len(init),
              !.cc.hash_ctx = CopyInto(@, 0, init),
              !.cc.hash_total_size = 0,
              !.obs.ret = <<"Ok">>]

\* the body shared by set_mode_md5 / set_mode_sha1 / set_mode_sha224 /
\* set_mode_sha256, which differ in the algorithm and its constants
set_mode_digest(m, alg, init) ==
    [m EXCEPT !.cc.hash_algo = [mode |-> "Digest", alg |-> alg],
              !.cc.hash_digest_size = Len(init),
              !.cc.hash_ctx = CopyInto(@, 0, init),
              !.cc.hash_total_size = 0,
              !.obs.ret = <<"Ok">>]

set_mode_md5(m) == set_mode_digest(m, Md5, MD5_INIT_VALUE)

set_mode_sha1(m) == set_mode_digest(m, Sha1, SHA1_INIT_VALUE)

\* set_mode_sha224 that loads the SHA-256 constants
set_mode_sha224_sha256_init(m) == set_mode_digest(m, Sha224, SHA256_INIT_VALUE)

set_mode_sha224(m) == set_mode_digest(m, Sha224, SHA224_INIT_VALUE)

set_mode_sha256(m) == set_mode_digest(m, Sha256, SHA256_INIT_VALUE)

\* pad[i] = c ^ (if i < key.len() { key[i] } else { 0 })
KeyPad(c, key) ==
    Seq1([i \in 1..BlockLen |-> Xor(c, IF i <= Len(key) THEN key[i] ELSE 0)])

\* let mut initial_value = self.hash_ctx.get();
\* initial_value.copy_from_slice(&SHA256_INIT_VALUE); self.hash_ctx.set(..)
hmac_load_init(m) ==
    [m EXCEPT !.cc.hash_ctx = CopyInto(@, 0, SHA256_INIT_VALUE)]

\* self.hash_total_size.set(0); self.hash_hmac_opad_ctx.set(self.hash_ctx.get())
hmac_keep_opad(m) ==
    [m EXCEPT !.cc.hash_total_size = 0, !.cc.hash_hmac_opad_ctx = m.cc.hash_ctx]

\* HMAC configure with the pads exchanged: the inner pad processed first and
\* kept as the outer context
set_mode_hmacsha256_swapped(m, key) ==
    [cc_hash_update(
         hmac_load_init(hmac_keep_opad(
             cc_hash_update(
                 hmac_load_init([m EXCEPT !.cc.hash_algo = [mode |-> "Hmac", alg |-> Sha256],
                                          !.cc.hash_digest_size = Len(SHA256_INIT_VALUE)]),
                 KeyPad(54, key), FALSE))),
         KeyPad(92, key), FALSE)
     EXCEPT !.cc.hash_total_size = 0, !.obs.ret = <<"Ok">>]

\* fn set_mode_hmacsha256(&self, key: &[u8; 32])
\* pad is a local copy of hash_data_queue; the queue itself is not written
set_mode_hmacsha256(m, key) ==
    [cc_hash_update(
         hmac_load_init(hmac_keep_opad(
             cc_hash_update(
                 hmac_load_init([m EXCEPT !.cc.hash_algo = [mode |-> "Hmac", alg |-> Sha256],
                                          !.cc.hash_digest_size = Len(SHA256_INIT_VALUE)]),
                 KeyPad(92, key), FALSE))),
         KeyPad(54, key), FALSE)
     EXCEPT !.cc.hash_total_size = 0, !.obs.ret = <<"Ok">>]

\* fn set_client(&'a self, client)
digest_set_client(m) == [m EXCEPT !.cc.sha256_client = TRUE]

\* add_data, the else branch: the block completed by the new bytes is
\* processed, then the whole blocks of the rest.  block is the copy that
\* hash_data_queue.get() returned; the tail copied into it afterwards is
\* dropped with it.
add_data_process(m, block, cursor_in_block, this_block, rest) ==
    cc_hash_update(cc_hash_update(m, CopyInto(block, cursor_in_block, this_block), FALSE),
                   Slice(rest, 0, Len(rest) - (Len(rest) % Len(block))),
                   FALSE)

\* add_data after hash_total_size.set(processed_size).  The function merges
\* the new bytes into its local copy of the queue and never stores the
\* copy back (there is no hash_data_queue.set(block)).
add_data_merge(m, data_slice, cursor_in_block, left_in_block) ==
    IF Len(data_slice) < left_in_block
    THEN m
    ELSE add_data_process(m, m.cc.hash_data_queue, cursor_in_block,
                          Slice(data_slice, 0, left_in_block),
                          Slice(data_slice, left_in_block, Len(data_slice)))

\* add_data up to the client notification
add_data_flush(m, data) ==
    add_data_merge([m EXCEPT !.cc.hash_data_buff = <<data>>,
                             !.cc.hash_total_size = @ + Len(data)],
                   data,
                   m.cc.hash_total_size % Len(m.cc.hash_data_queue),
                   Len(m.cc.hash_data_queue)
                       - (m.cc.hash_total_size % Len(m.cc.hash_data_queue)))

\* self.sha256_client.map(|client| client.add_data_done(Ok(()), data_slice))
add_data_done(m, data_slice) ==
    IF m.cc.sha256_client
    THEN [m EXCEPT !.obs.callbacks =
              Append(@, [cb |-> "add_data_done", result |-> "Ok", buf |-> data_slice])]
    ELSE m

\* the notification made only when the data stayed in the pending block,
\* and the bytes merged into it reported
add_data_notify_partial(m, data) ==
    [IF Len(m.obs.calls) > 0 THEN m ELSE add_data_done(m, data)
     EXCEPT !.obs.ret = <<"Ok", IF Len(m.obs.calls) > 0
                                THEN Len(data) % BlockLen ELSE Len(data)>>]

\* add_data that notifies the client only when nothing was flushed
add_data_partial(m, data) ==
    add_data_notify_partial(add_data_flush(m, data), data)

\* fn add_data(&self, data: LeasableBuffer<'static, u8>)
add_data(m, data) ==
    [add_data_done(add_data_flush(m, data), data) EXCEPT !.obs.ret = <<"Ok", Len(data)>>]

\* digest[(4 * i)..(4 * i + 4)].copy_from_slice(&ctx[i].to_be_bytes())
\* for i in 0..n
Serialize(digest, ctx, n) ==
    Seq1([j \in 1..Len(digest) |->
            IF j <= 4 * n THEN to_be_bytes(ctx[((j - 1) \div 4) + 1])[((j - 1) % 4) + 1]
            ELSE digest[j]])

\* the context written into the caller's buffer
run_serialize(m, digest) ==
    [m EXCEPT !.obs.out = Serialize(digest, m.cc.hash_ctx, m.cc.hash_digest_size)]

\* run, the final block: the pending bytes of the queue, with padding
run_final(m, digest) ==
    run_serialize(
        cc_hash_update(m,
                       Slice(m.cc.hash_data_queue, 0,
                             m.cc.hash_total_size % Len(m.cc.hash_data_queue)),
                       TRUE),
        digest)

\* run, the outer HMAC pass: the opad context over &digest[..digest_size],
\* where digest_size counts 32-bit words
run_hmac(m) ==
    IF m.cc.hash_algo.mode = "Hmac"
    THEN run_serialize(
             cc_hash_update([m EXCEPT !.cc.hash_ctx = m.cc.hash_hmac_opad_ctx],
                            Slice(m.obs.out, 0, m.cc.hash_digest_size), TRUE),
             m.obs.out)
    ELSE m

\* self.hash_digest.set(Some(digest)); client.hash_done(Ok(()), taken digest)
run_done(m) ==
    IF m.cc.sha256_client
    THEN [m EXCEPT !.cc.hash_digest = <<>>,
                   !.obs.callbacks = Append(@, [cb |-> "hash_done", result |-> "Ok",
                                                buf |-> m.obs.out]),
                   !.obs.ret = <<"Ok">>]
    ELSE [m EXCEPT !.cc.hash_digest = <<m.obs.out>>, !.obs.ret = <<"Ok">>]

\* run that notifies the client before the outer HMAC pass
run_early_done(m, digest) == run_hmac(run_done(run_final(m, digest)))

\* fn run(&'a self, digest: &'static mut [u8; 32])
run(m, digest) == run_done(run_hmac(run_final(m, digest)))

\* clear_data that also resets the byte count
clear_data_resets_total(m) ==
    [m EXCEPT !.cc.hash_data_queue = Zeros(Len(@)),
              !.cc.hash_ctx = Seq1([i \in 1..Len(@) |-> ZeroWord]),
              !.cc.hash_hmac_opad_ctx = Seq1([i \in 1..Len(@) |-> ZeroWord]),
              !.cc.hash_total_size = 0]

\* fn clear_data(&self)
clear_data(m) ==
    [m EXCEPT !.cc.hash_data_queue = Zeros(Len(@)),
              !.cc.hash_ctx = Seq1([i \in 1..Len(@) |-> ZeroWord]),
              !.cc.hash_hmac_opad_ctx = Seq1([i \in 1..Len(@) |-> ZeroWord])]

-----------------------------------------------------------------------------
(* AES facade, aes.rs *)

\* fn set_client(&'a self, client)
aes_set_client(m) == [m EXCEPT !.cc.aes_client = TRUE]

\* set_key that only rejects keys that are too short
set_key_min_length(m, key) ==
    IF Len(key) < AES128_KEY_SIZE
    THEN [m EXCEPT !.obs.ret = <<"EINVAL">>]
    ELSE LET w == WriteSeq(m, [k \in 1..4 |->
                        <<"key0", k - 1,
                          le_word(key[4 * k - 3], key[4 * k - 2], key[4 * k - 1], key[4 * k])>>])
         IN  [w EXCEPT !.obs.ret = <<"SUCCESS">>]

\* fn set_key(&self, key: &[u8]) -> ReturnCode
set_key(m, key) ==
    IF Len(key) # AES128_KEY_SIZE
    THEN [m EXCEPT !.obs.ret = <<"EINVAL">>]
    ELSE LET w == WriteSeq(m, [k \in 1..4 |->
                        <<"key0", k - 1,
                          le_word(key[4 * k - 3], key[4 * k - 2], key[4 * k - 1], key[4 * k])>>])
         IN  [w EXCEPT !.obs.ret = <<"SUCCESS">>]

\* fn set_iv(&self, iv: &[u8]) -> ReturnCode
\* each word goes to iv0[i] and then to ctr0[i]
set_iv(m, iv) ==
    IF Len(iv) # AES128_BLOCK_SIZE
    THEN [m EXCEPT !.obs.ret = <<"EINVAL">>]
    ELSE LET w == WriteSeq(m, [k \in 1..8 |->
                        LET i == (k + 1) \div 2
                        IN  << IF k % 2 = 1 THEN "iv0" ELSE "ctr0", i - 1,
                               le_word(iv[4 * i - 3], iv[4 * i - 2], iv[4 * i - 1], iv[4 * i]) >>])
         IN  [w EXCEPT !.obs.ret = <<"SUCCESS">>]

\* fn start_message(&self)
\* AesControl::MODE_KEY0 is bits 2..4 of the control register, CMAC = 7
start_message(m) ==
    IF m.regs.aes_busy = 1 THEN m
    ELSE LET a == RegWrite(m, "crypto_ctl", -1, CryptoModeAes)
             b == IF (a.regs.aes_control \div 4) % 8 = 7
                  THEN RegWrite(a, "cmac_init", -1, 1) ELSE a
         IN  RegWrite(b, "remaining_bytes", -1, 0)

\* crypt that keeps the source buffer when it reports busy
crypt_keeps_source(m, source, dest, start_index, stop_index) ==
    IF m.regs.aes_busy = 1
    THEN [m EXCEPT !.obs.ret = <<"Some", "EBUSY", <<>>, dest>>]
    ELSE [m EXCEPT !.obs.ret = <<"None">>]

\* crypt that starts the transfer when the AES core is ready
crypt_starts_transfer(m, source, dest, start_index, stop_index) ==
    IF m.regs.aes_busy = 1
    THEN [m EXCEPT !.obs.ret = <<"Some", "EBUSY", source, dest>>]
    ELSE [RegWrite(m, "remaining_bytes", -1, stop_index - start_index)
          EXCEPT !.obs.ret = <<"None">>]

\* fn crypt(&'a self, source, dest, start_index, stop_index)
\*   -> Option<(ReturnCode, Option<&'a mut [u8]>, &'a mut [u8])>
crypt(m, source, dest, start_index, stop_index) ==
    IF m.regs.aes_busy = 1
    THEN [m EXCEPT !.obs.ret = <<"Some", "EBUSY", source, dest>>]
    ELSE [m EXCEPT !.obs.ret = <<"None">>]

-----------------------------------------------------------------------------
(* Entropy facade, trng.rs *)

\* fn get(&self) -> ReturnCode
entropy_get(m) == [m EXCEPT !.obs.ret = <<"SUCCESS">>]

\* cancel that stops a pending acquisition: RNG masked, success reported
entropy_cancel_implemented(m) ==
    [RegWrite(m, "interrupt_mask", -1, m.regs.interrupt_mask \ {"RNG"})
     EXCEPT !.obs.ret = <<"SUCCESS">>]

\* fn cancel(&self) -> ReturnCode
entropy_cancel(m) == [m EXCEPT !.obs.ret = <<"FAIL">>]

\* fn set_client(&'a self, client)
entropy_set_client(m) == [m EXCEPT !.cc.trng_client = TRUE]

-----------------------------------------------------------------------------
(* Interrupt handler, mod.rs *)

RECURSIVE HandleCauses(_, _, _)
\* the if-blocks of handle_interrupt for the cause bits k.. in source order,
\* over the status value intrs extracted once at entry
HandleCauses(m, intrs, k) ==
    IF k > Len(InterruptBits) THEN m
    ELSE LET bit == InterruptBits[k]
             n   == IF bit \notin intrs THEN m
                    ELSE IF bit = "RNG"
                    THEN RegWrite(m, "interrupt_mask", -1, m.regs.interrupt_mask \ {"RNG"})
                    ELSE RegWrite(m, "interrupt_clear", -1, {bit})
         IN  HandleCauses(n, intrs, k + 1)

\* a handler that completes the hash operation on MEM_TO_DIN: current_op
\* back to Idle and the client notified
handle_interrupt_completes(m) ==
    IF "MEM_TO_DIN" \in m.regs.interrupts
    THEN [HandleCauses(m, m.regs.interrupts, 1)
          EXCEPT !.cc.current_op = "Idle",
                 !.obs.callbacks = Append(@, [cb |-> "add_data_done", result |-> "Ok",
                                              buf |-> <<>>])]
    ELSE HandleCauses(m, m.regs.interrupts, 1)

\* a handler that answers the RNG cause by clearing the whole interrupt mask
handle_interrupt_masks_all(m) ==
    IF "RNG" \in m.regs.interrupts
    THEN RegWrite(HandleCauses(m, m.regs.interrupts \ {"RNG"}, 1), "interrupt_mask", -1, {})
    ELSE HandleCauses(m, m.regs.interrupts, 1)

\* pub fn handle_interrupt(&self)
handle_interrupt(m) == HandleCauses(m, m.regs.interrupts, 1)

-----------------------------------------------------------------------------
(* Inputs *)

\* the buffer of n bytes f+1, f+2, ...; Buf(96, 3) is "abc"
Buf(f, n) == Seq1([i \in 1..n |-> (f + i) % 256])

\* lengths of add_data buffers: empty, below a block, completing a block
\* after 3 bytes, one block, a block and a tail, two blocks and a tail
DataLens == {0, 3, 61, 64, 67, 130}

DataBuffers == {Buf(96, n) : n \in DataLens}

\* HMAC keys (&[u8; 32])
HmacKeys == {Buf(0, DigestBufLen)}

\* the caller's output buffer before run
DigestBuffers == {Seq1([i \in 1..DigestBufLen |-> 238])}

\* set_key / set_iv arguments: too short, exact, too long
AesInputs == {Buf(16, n) : n \in {0, AES128_KEY_SIZE - 1, AES128_KEY_SIZE, AES128_KEY_SIZE + 1}}

\* crypt arguments: source is None (<<>>) or Some(buffer) (<<buffer>>)
CryptSources == {<<>>, <<Buf(32, AES128_BLOCK_SIZE)>>}

CryptDest == Buf(64, AES128_BLOCK_SIZE)

-----------------------------------------------------------------------------
(* The state machine *)

\* the machine an operation starts from: nothing observed yet
M == [cc |-> cc, regs |-> regs, obs |-> ObsInit]

\* the hash session before any Configure
SessInit ==
    [ stage |-> "none", mode |-> "Invalid", alg |-> -1, key |-> <<>>,
      msg |-> <<>>, nadd |-> 0, subs |-> <<>>, start |-> [cc |-> new, regs |-> RegsInit] ]

Init ==
    /\ cc = new
    /\ regs = RegsInit
    /\ obs = ObsInit
    /\ op = [name |-> "new", arg |-> <<>>, pre |-> <<0, 0>>, size |-> 0]
    /\ sess = SessInit
    /\ acq = <<>>
    /\ nops = 0
    /\ pc = "idle"
    /\ hw = HwIdle

\* operation name with argument arg took the machine to m2
Do(name, arg, m2, sess2, acq2) ==
    /\ cc' = m2.cc
    /\ regs' = m2.regs
    /\ obs' = m2.obs
    /\ op' = [name |-> name, arg |-> arg, pre |-> <<cc.usage_count, regs.power_enable>>,
              size |-> cc.hash_total_size]
    /\ sess' = sess2
    /\ acq' = acq2
    /\ nops' = nops + 1
    /\ UNCHANGED <<pc, hw>>

\* the session a Configure opens
Configured(m2, mode, alg, key) ==
    [ stage |-> "open", mode |-> mode, alg |-> alg, key |-> key,
      msg |-> <<>>, nadd |-> 0, subs |-> <<>>,
      start |-> [cc |-> m2.cc, regs |-> m2.regs] ]

Enable ==
    /\ cc.usage_count < MaxUsage
    /\ Do("enable", <<>>, enable(M), sess,
          Append(acq, <<cc.usage_count, regs.power_enable>>))

Disable ==
    Do("disable", IF acq = <<>> THEN <<>> ELSE <<acq[Len(acq)]>>, disable(M), sess,
       IF acq = <<>> THEN acq ELSE SubSeq(acq, 1, Len(acq) - 1))

SetModeMd5 ==
    LET m2 == set_mode_md5(M)
    IN  Do("set_mode_md5", <<>>, m2, Configured(m2, "Digest", Md5, <<>>), acq)

SetModeSha1 ==
    LET m2 == set_mode_sha1(M)
    IN  Do("set_mode_sha1", <<>>, m2, Configured(m2, "Digest", Sha1, <<>>), acq)

SetModeSha224 ==
    LET m2 == set_mode_sha224(M)
    IN  Do("set_mode_sha224", <<>>, m2, Configured(m2, "Digest", Sha224, <<>>), acq)

SetModeSha256 ==
    LET m2 == set_mode_sha256(M)
    IN  Do("set_mode_sha256", <<>>, m2, Configured(m2, "Digest", Sha256, <<>>), acq)

SetModeHmacSha256 ==
    \E key \in HmacKeys :
        LET m2 == set_mode_hmacsha256(M, key)
        IN  Do("set_mode_hmacsha256", key, m2, Configured(m2, "Hmac", Sha256, key), acq)

DigestSetClient ==
    /\ ~cc.sha256_client
    /\ Do("digest_set_client", <<>>, digest_set_client(M), sess, acq)

AddData ==
    \E data \in DataBuffers :
        LET m2 == add_data(M, data)
        IN  Do("add_data", data, m2,
               IF sess.stage = "open"
               THEN [sess EXCEPT !.msg = @ \o data, !.nadd = @ + 1,
                                 !.subs = @ \o m2.obs.calls]
               ELSE [sess EXCEPT !.stage = "broken"],
               acq)

Run ==
    \E digest \in DigestBuffers :
        LET m2 == run(M, digest)
        IN  Do("run", digest, m2,
               IF sess.stage = "open"
               THEN [sess EXCEPT !.stage = "done", !.subs = @ \o m2.obs.calls]
               ELSE [sess EXCEPT !.stage = "broken"],
               acq)

ClearData ==
    Do("clear_data", <<>>, clear_data(M), [sess EXCEPT !.stage = "broken"], acq)

AesSetClient ==
    /\ ~cc.aes_client
    /\ Do("aes_set_client", <<>>, aes_set_client(M), sess, acq)

SetKey ==
    \E key \in AesInputs : Do("set_key", key, set_key(M, key), sess, acq)

SetIv ==
    \E iv \in AesInputs : Do("set_iv", iv, set_iv(M, iv), sess, acq)

StartMessage ==
    Do("start_message", <<>>, start_message(M), sess, acq)

Crypt ==
    \E source \in CryptSources :
        Do("crypt", [source |-> source, dest |-> CryptDest],
           crypt(M, source, CryptDest, 0, AES128_BLOCK_SIZE), sess, acq)

EntropyGet ==
    Do("entropy_get", <<>>, entropy_get(M), sess, acq)

EntropyCancel ==
    Do("entropy_cancel", <<>>, entropy_cancel(M), sess, acq)

EntropySetClient ==
    /\ ~cc.trng_client
    /\ Do("entropy_set_client", <<>>, entropy_set_client(M), sess, acq)

HandleInterrupt ==
    Do("handle_interrupt", regs.interrupts, handle_interrupt(M), sess, acq)

\* the engine raises a cause bit of the host interrupt status register
HwRaiseInterrupt ==
    \E k \in 1..Len(InterruptBits) :
        /\ InterruptBits[k] \notin regs.interrupts
        /\ Do("hw_raise", InterruptBits[k],
              [M EXCEPT !.regs.interrupts = @ \cup {InterruptBits[k]}], sess, acq)

\* the AES core becomes busy or ready (aes.busy is read-only to the driver)
HwAesBusy ==
    Do("hw_aes_busy", 1 - regs.aes_busy, [M EXCEPT !.regs.aes_busy = 1 - @], sess, acq)

\* every operation of the driver, the engine's events included
Next ==
    /\ nops < MaxOps
    /\ \/ Enable
       \/ Disable
       \/ SetModeMd5
       \/ SetModeSha1
       \/ SetModeSha224
       \/ SetModeSha256
       \/ SetModeHmacSha256
       \/ DigestSetClient
       \/ AddData
       \/ Run
       \/ ClearData
       \/ AesSetClient
       \/ SetKey
       \/ SetIv
       \/ StartMessage
       \/ Crypt
       \/ EntropyGet
       \/ EntropyCancel
       \/ EntropySetClient
       \/ HandleInterrupt
       \/ HwRaiseInterrupt
       \/ HwAesBusy

Spec == Init /\ [][Next]_vars

\* the power controller and the hash engine
NextHash ==
    /\ nops < MaxHashOps
    /\ \/ Enable
       \/ Disable
       \/ SetModeMd5
       \/ SetModeSha1
       \/ SetModeSha224
       \/ SetModeSha256
       \/ SetModeHmacSha256
       \/ DigestSetClient
       \/ AddData
       \/ Run
       \/ ClearData

SpecHash == Init /\ [][NextHash]_vars

\* hash sessions: Configure, add_data, run
NextChunk ==
    /\ nops < MaxChunkOps
    /\ \/ SetModeMd5
       \/ SetModeSha1
       \/ SetModeSha224
       \/ SetModeSha256
       \/ SetModeHmacSha256
       \/ AddData
       \/ Run

SpecChunk == Init /\ [][NextChunk]_vars

\* operations per behaviour of SpecIrq
MaxIrqOps == 2

\* the driver as constructed
Machine0 == [cc |-> new, regs |-> RegsInit, obs |-> ObsInit]

\* states of the driver in which an interrupt can arrive: as constructed,
\* enabled by a user, after a flushed add_data with a client registered,
\* after an HMAC configure, after a SHA-1 session run while enabled
IrqStarts ==
    {Machine0, enable(Machine0)}
    \cup {add_data(digest_set_client(Machine0), Buf(96, BlockLen + 3))}
    \cup {set_mode_hmacsha256(Machine0, key) : key \in HmacKeys}
    \cup {run(set_mode_sha1(enable(Machine0)), digest) : digest \in DigestBuffers}

InitIrq ==
    /\ \E m0 \in IrqStarts : cc = m0.cc /\ regs = m0.regs
    /\ obs = ObsInit
    /\ op = [name |-> "new", arg |-> <<>>, pre |-> <<0, 0>>, size |-> 0]
    /\ sess = SessInit
    /\ acq = <<>>
    /\ nops = 0
    /\ pc = "idle"
    /\ hw = HwIdle

\* the engine raises any set of cause bits that are not pending
HwRaiseCauses ==
    \E causes \in SUBSET {InterruptBits[k] : k \in 1..Len(InterruptBits)} :
        /\ causes # {}
        /\ causes \cap regs.interrupts = {}
        /\ Do("hw_raise", causes, [M EXCEPT !.regs.interrupts = @ \cup causes], sess, acq)

\* the shared interrupt line: causes raised by the engine, the handler run
NextIrq ==
    /\ nops < MaxIrqOps
    /\ \/ HwRaiseCauses
       \/ HandleInterrupt

SpecIrq == InitIrq /\ [][NextIrq]_vars

-----------------------------------------------------------------------------
(* cc_hash_update statement by statement: the caller's position pc, the    *)
(* polling loops as steps that wait for the flag they poll, and the engine *)
(* as a process of its own                                                 *)

\* block-processing calls a caller makes in a row (add_data, run and the
\* HMAC configure make at most two)
MaxPollCalls == 2

\* the machine with the observations of the call in progress
Mp == [cc |-> cc, regs |-> regs, obs |-> obs]

\* slices handed to cc_hash_update: empty, a tail, one block
PollData == {<<>>, Buf(96, 3), Buf(96, BlockLen)}

\* states a call starts from: configured with the power off, configured
\* while a user holds the power domain
PollStarts == {set_mode_sha256(Machine0), set_mode_sha1(enable(Machine0))}

\* a call is entered; the engine may still show any of its busy flags
InitPoll ==
    \E m0 \in PollStarts, data \in PollData, is_last_block \in BOOLEAN,
       hb \in {0, 1}, cb \in {0, 1}, db \in {0, 1} :
        /\ cc = m0.cc
        /\ regs = [m0.regs EXCEPT !.hash_busy = hb, !.crypto_busy = cb, !.mem_dma_busy = db]
        /\ obs = ObsInit
        /\ op = [name |-> "cc_hash_update", arg |-> <<data, is_last_block>>,
                 pre |-> <<m0.cc.usage_count, m0.regs.power_enable>>,
                 size |-> m0.cc.hash_total_size]
        /\ sess = [SessInit EXCEPT !.start = [cc |-> m0.cc, regs |-> m0.regs]]
        /\ acq = <<>>
        /\ nops = 0
        /\ pc = "call"
        /\ hw = HwIdle

\* the caller moves from one position to the next, the machine becomes m2
PollStep(from, to, m2) ==
    /\ pc = from
    /\ pc' = to
    /\ cc' = m2.cc /\ regs' = m2.regs /\ obs' = m2.obs
    /\ UNCHANGED <<op, sess, acq, nops, hw>>

\* a loop that polls the status bit of the other direction
din_done_wrong_bit(r) == "DOUT_TO_MEM" \in r.interrupts

\* while !interrupts.is_set(MEM_TO_DIN) {} : the condition that ends the loop
din_done(r) == "MEM_TO_DIN" \in r.interrupts

\* the descriptor writes of "Process data"; the engine raises its busy flags
hash_submit(m, data, is_last_block) ==
    [WriteSeq(IF is_last_block THEN RegWrite(m, "auto_hw_padding", -1, 1) ELSE m,
              << <<"src_lli_word0", -1, data>>, <<"src_lli_word1", -1, Len(data)>> >>)
     EXCEPT !.regs.crypto_busy = 1, !.regs.mem_dma_busy = 1]

\* self.enable()
PollEnable == PollStep("call", "wait_hash_idle", enable(Mp))

\* while hash_busy {}
PollHashIdle == regs.hash_busy = 0 /\ PollStep("wait_hash_idle", "wait_crypto_idle", Mp)

\* while crypto_busy {}
PollCryptoIdle == regs.crypto_busy = 0 /\ PollStep("wait_crypto_idle", "wait_dma_idle", Mp)

\* while mem_dma_busy {}
PollDmaIdle == regs.mem_dma_busy = 0 /\ PollStep("wait_dma_idle", "setup", Mp)

\* "Start HASH module and configure it"
PollSetup == PollStep("setup", "process", hash_setup(hash_begin(Mp)))

\* "Process data", data.len() > 0: the descriptor is submitted
PollSubmit ==
    /\ pc = "process" /\ Len(op.arg[1]) > 0
    /\ LET m2 == hash_submit(Mp, op.arg[1], op.arg[2])
       IN  cc' = m2.cc /\ regs' = m2.regs /\ obs' = m2.obs
    /\ pc' = "wait_din"
    /\ hw' = [dma |-> "inflight", data |-> op.arg[1]]
    /\ UNCHANGED <<op, sess, acq, nops>>

\* "Process data", empty slice: DO_PAD
PollDoPad ==
    /\ Len(op.arg[1]) = 0
    /\ PollStep("process", "wait_crypto", hash_do_pad(RegWrite(Mp, "pad_config", -1, 1)))

\* while !interrupts.is_set(MEM_TO_DIN) {}
PollDin == din_done(regs) /\ PollStep("wait_din", "clear_din", Mp)

\* interrupt_clear.write(MEM_TO_DIN::SET)
PollClearDin ==
    PollStep("clear_din", "wait_crypto", RegWrite(Mp, "interrupt_clear", -1, {"MEM_TO_DIN"}))

\* while crypto_busy {}
PollCrypto == regs.crypto_busy = 0 /\ PollStep("wait_crypto", "wait_dma", Mp)

\* while mem_dma_busy {}
PollDma == regs.mem_dma_busy = 0 /\ PollStep("wait_dma", "readback", Mp)

\* "Update context and total size", the padding bits cleared
PollRestore == PollStep("readback", "wait_crypto_stop", hash_restore(Mp))

\* while crypto_busy {} before the clock is stopped
PollCryptoStop == regs.crypto_busy = 0 /\ PollStep("wait_crypto_stop", "clk_off", Mp)

\* hash_clk_enable cleared
PollClkOff == PollStep("clk_off", "release", hash_clk_off(Mp))

\* self.disable(); the call returns
PollRelease ==
    /\ pc = "release" /\ pc' = "done"
    /\ LET m2 == disable(Mp)
       IN  cc' = m2.cc /\ regs' = m2.regs /\ obs' = m2.obs
    /\ nops' = nops + 1
    /\ UNCHANGED <<op, sess, acq, hw>>

\* the caller makes its next call
PollNextCall ==
    /\ pc = "done" /\ nops < MaxPollCalls
    /\ \E data \in PollData, is_last_block \in BOOLEAN :
           op' = [name |-> "cc_hash_update", arg |-> <<data, is_last_block>>,
                  pre |-> <<cc.usage_count, regs.power_enable>>,
                  size |-> cc.hash_total_size]
    /\ sess' = [sess EXCEPT !.start = [cc |-> cc, regs |-> regs]]
    /\ obs' = ObsInit
    /\ pc' = "call"
    /\ UNCHANGED <<cc, regs, acq, nops, hw>>

\* the steps of the caller
PollCpu ==
    \/ PollEnable \/ PollHashIdle \/ PollCryptoIdle \/ PollDmaIdle
    \/ PollSetup \/ PollSubmit \/ PollDoPad \/ PollDin \/ PollClearDin
    \/ PollCrypto \/ PollDma \/ PollRestore \/ PollCryptoStop
    \/ PollClkOff \/ PollRelease \/ PollNextCall

\* the engine drops the hash-busy flag
HwHashBusyClears ==
    /\ regs.hash_busy = 1
    /\ regs' = [regs EXCEPT !.hash_busy = 0]
    /\ UNCHANGED <<cc, obs, op, sess, acq, nops, pc, hw>>

\* the engine drops the crypto-busy flag once no transfer feeds it
HwCryptoBusyClears ==
    /\ regs.crypto_busy = 1 /\ hw.dma = "idle"
    /\ regs' = [regs EXCEPT !.crypto_busy = 0]
    /\ UNCHANGED <<cc, obs, op, sess, acq, nops, pc, hw>>

\* the engine drops the DMA-busy flag of an earlier transfer
HwDmaBusyClears ==
    /\ regs.mem_dma_busy = 1 /\ hw.dma = "idle"
    /\ regs' = [regs EXCEPT !.mem_dma_busy = 0]
    /\ UNCHANGED <<cc, obs, op, sess, acq, nops, pc, hw>>

\* the transfer in flight completes: the data is absorbed, MEM_TO_DIN is
\* raised, the DMA is idle again
HwDmaCompletes ==
    /\ hw.dma = "inflight"
    /\ regs' = [HwDmaIn(regs, hw.data) EXCEPT !.mem_dma_busy = 0]
    /\ hw' = HwIdle
    /\ UNCHANGED <<cc, obs, op, sess, acq, nops, pc>>

\* the steps of the engine
PollHw == HwHashBusyClears \/ HwCryptoBusyClears \/ HwDmaBusyClears \/ HwDmaCompletes

NextPoll == PollCpu \/ PollHw

\* the caller runs whenever it can, and the engine eventually clears each
\* busy flag and completes each transfer
SpecPoll == InitPoll /\ [][NextPoll]_vars /\ WF_vars(PollCpu) /\ WF_vars(PollHw)

\* handle_interrupt() runs at some point of the call
PollHandler ==
    /\ pc \notin {"done"}
    /\ LET m2 == handle_interrupt(Mp)
       IN  cc' = m2.cc /\ regs' = m2.regs /\ obs' = m2.obs
    /\ UNCHANGED <<op, sess, acq, nops, pc, hw>>

NextPollIrq == PollCpu \/ PollHw \/ PollHandler

\* the same call with the interrupt handler free to run in between
SpecPollIrq == InitPoll /\ [][NextPollIrq]_vars /\ WF_vars(PollCpu) /\ WF_vars(PollHw)

-----------------------------------------------------------------------------
(* Reference definitions: the standard digest and HMAC over the engine's   *)
(* compression function                                                    *)

InitValue(alg) ==
    IF alg = Md5 THEN MD5_INIT_VALUE
    ELSE IF alg = Sha1 THEN SHA1_INIT_VALUE
    ELSE IF alg = Sha224 THEN SHA224_INIT_VALUE
    ELSE SHA256_INIT_VALUE

\* digest length in bytes
DigestLen(alg) ==
    IF alg = Md5 THEN 16 ELSE IF alg = Sha1 THEN 20 ELSE IF alg = Sha224 THEN 28 ELSE 32

RECURSIVE WordsToBytes(_)
WordsToBytes(ws) ==
    IF ws = <<>> THEN <<>> ELSE to_be_bytes(ws[1]) \o WordsToBytes(Tail(ws))

\* the digest of msg: initial constants, the message, the padding for its length
StdDigest(alg, msg) ==
    LET h0 == InitValue(alg) \o Seq1([i \in 1..(8 - Len(InitValue(alg))) |-> ZeroWord])
        h  == HwAbsorb(alg, h0, msg \o HwPadding(alg, Len(msg), Len(msg)))
    IN  SubSeq(WordsToBytes(h), 1, DigestLen(alg))

\* the key zero-padded to a block and xored with the pad constant
StdKeyBlock(c, key) ==
    Seq1([i \in 1..BlockLen |-> Xor(IF i <= Len(key) THEN key[i] ELSE 0, c)])

\* HMAC: outer hash of (opad xor key || inner), inner = hash of (ipad xor key || msg)
StdHmac(alg, key, msg) ==
    StdDigest(alg, StdKeyBlock(92, key) \o StdDigest(alg, StdKeyBlock(54, key) \o msg))

RECURSIVE ConcatData(_)
\* the data of the block-processing calls, in submission order
ConcatData(calls) ==
    IF calls = <<>> THEN <<>> ELSE calls[1].data \o ConcatData(Tail(calls))

\* a complete session has just ended: Configure, add_data x N, run
SessionDone == op.name = "run" /\ sess.stage = "done"

\* the output of Configure, one add_data of the whole message, run, from the
\* state the session's Configure left
OneShot ==
    run(add_data([cc |-> sess.start.cc, regs |-> sess.start.regs, obs |-> ObsInit],
                 sess.msg), op.arg).obs.out

-----------------------------------------------------------------------------
(* Claims *)

\* C1: chunk-invariance: a session Configure, add_data x N, run over any
\* split of a message produces the digest that Configure, one add_data of
\* the whole message, run produces.
C1_ChunkInvariance ==
    SessionDone => obs.out = OneShot

\* C2: in a plain-digest session the bytes submitted to the hardware, in
\* submission order, are the bytes appended; only the last submission is
\* final, it is made by run, and it carries total mod 64 bytes.
C2_SubmittedIsAppended ==
    (SessionDone /\ sess.mode = "Digest") =>
        LET n == Len(sess.subs)
        IN  /\ n >= 1
            /\ ConcatData(sess.subs) = sess.msg
            /\ \A i \in 1..n : sess.subs[i].is_final <=> (i = n)
            /\ sess.subs[n] = obs.calls[Len(obs.calls)]
            /\ Len(sess.subs[n].data) = Len(sess.msg) % BlockLen

\* C3: an HMAC session outputs the standard two-pass HMAC of the key and
\* the appended message.
C3_HmacIsStandard ==
    (SessionDone /\ sess.mode = "Hmac") =>
        SubSeq(obs.out, 1, DigestLen(sess.alg)) = StdHmac(sess.alg, sess.key, sess.msg)

\* C4: Configure then run with no add_data makes exactly one
\* block-processing call: empty data, final, length 0, the algorithm's
\* initial constants as state, on the pad-only path (DO_PAD armed, no
\* automatic padding, no DMA descriptor); the output is the algorithm's
\* empty-message digest.
C4_EmptyMessage ==
    (SessionDone /\ sess.mode = "Digest" /\ sess.nadd = 0) =>
        /\ Len(obs.calls) = 1
        /\ obs.calls[1].data = <<>>
        /\ obs.calls[1].is_final
        /\ obs.calls[1].len = 0
        /\ obs.calls[1].alg = sess.alg
        /\ SubSeq(obs.calls[1].ctx, 1, Len(InitValue(sess.alg))) = InitValue(sess.alg)
        /\ \E k \in 1..Len(obs.writes) :
               obs.writes[k].reg = "pad_config" /\ obs.writes[k].val = 1
        /\ \A k \in 1..Len(obs.writes) :
               /\ obs.writes[k].reg # "src_lli_word1"
               /\ ~(obs.writes[k].reg = "auto_hw_padding" /\ obs.writes[k].val = 1)
        /\ SubSeq(obs.out, 1, DigestLen(sess.alg)) = StdDigest(sess.alg, <<>>)

\* an empty MD5 session that ran while another user held the engine
C4_Witness ==
    /\ SessionDone /\ sess.mode = "Digest" /\ sess.nadd = 0
    /\ sess.alg = Md5
    /\ cc.usage_count = 1
    /\ SubSeq(obs.out, 1, DigestLen(Md5)) = StdDigest(Md5, <<>>)

\* C5: N nested enable() calls followed by N disable() calls leave
\* usage_count and the power-enable state as they were: every disable()
\* that closes an enable() restores what that enable() found.
C5_EnableDisableRestores ==
    (op.name = "disable" /\ op.arg # <<>>) =>
        <<cc.usage_count, regs.power_enable>> = op.arg[1]

\* the inner disable() of two nested enable()s
C5_Witness ==
    /\ op.name = "disable" /\ op.arg = << <<1, 1>> >>
    /\ acq = << <<0, 0>> >>
    /\ cc.usage_count = 1 /\ regs.power_enable = 1

\* C6: between operations the power domain is enabled if and only if
\* usage_count > 0, and usage_count is never below 0.
C6_PowerIffInUse ==
    /\ cc.usage_count >= 0
    /\ (regs.power_enable = 1) <=> (cc.usage_count > 0)

\* a hash operation made while a user holds the engine
C6_Witness ==
    /\ op.name \in {"add_data", "run", "set_mode_hmacsha256"}
    /\ Len(obs.calls) > 0
    /\ cc.usage_count = 1 /\ regs.power_enable = 1

\* C7: disable() at usage_count 0 is a no-op: the count stays 0 and no
\* register is written.
C7_DisableAtZero ==
    [][(op'.name = "disable" /\ cc.usage_count = 0) =>
          (cc'.usage_count = 0 /\ obs'.writes = <<>> /\ regs' = regs /\ cc' = cc)]_vars

\* the release after the last one: enable, disable, disable
C7_Witness ==
    /\ op.name = "disable" /\ op.pre = <<0, 0>> /\ op.arg = <<>>
    /\ nops = 3 /\ cc = new /\ regs.interrupt_mask = {} /\ regs.endian = 0
    /\ regs.power_enable = 0 /\ regs.dma_clk_enable = 0 /\ obs.writes = <<>>

\* C8: set_key and set_iv reject every input that is not 16 bytes long with
\* EINVAL and write no register.
C8_KeyIvLength ==
    [][(op'.name \in {"set_key", "set_iv"} /\ Len(op'.arg) # 16) =>
          (obs'.ret = <<"EINVAL">> /\ obs'.writes = <<>> /\ regs' = regs)]_vars

\* a 17-byte IV rejected after a key was loaded
C8_Witness ==
    /\ op.name = "set_iv" /\ Len(op.arg) = 17
    /\ obs.ret = <<"EINVAL">> /\ obs.writes = <<>>
    /\ regs.key0 # RegsInit.key0 /\ regs.iv0 = RegsInit.iv0 /\ regs.ctr0 = RegsInit.ctr0

\* C9: crypt() while the AES busy flag is set returns EBUSY with the source
\* and destination buffers passed in, retains neither and writes no register.
C9_CryptBusy ==
    [][(op'.name = "crypt" /\ regs.aes_busy = 1) =>
          /\ obs'.ret = <<"Some", "EBUSY", op'.arg.source, op'.arg.dest>>
          /\ obs'.writes = <<>>
          /\ regs' = regs
          /\ cc' = cc]_vars

\* crypt() with a source buffer answered busy
C9_Witness ==
    /\ op.name = "crypt" /\ op.arg.source # <<>>
    /\ regs.aes_busy = 1
    /\ obs.ret = <<"Some", "EBUSY", op.arg.source, op.arg.dest>>

\* C10: add_data returns Ok with the length of its input, and with a digest
\* client registered it calls add_data_done exactly once, before it
\* returns, with the input buffer.
C10_AddDataAcceptsAll ==
    op.name = "add_data" =>
        /\ obs.ret = <<"Ok", Len(op.arg)>>
        /\ cc.sha256_client =>
               obs.callbacks = << [cb |-> "add_data_done", result |-> "Ok", buf |-> op.arg] >>

\* add_data of more than two blocks, flushed, with a client registered
C10_Witness ==
    /\ op.name = "add_data" /\ Len(op.arg) > 2 * BlockLen
    /\ cc.sha256_client
    /\ Len(obs.calls) = 2
    /\ Len(obs.callbacks) = 1

\* C11: every run() with a digest client registered calls hash_done exactly
\* once, after the final digest bytes (for HMAC those of the second pass)
\* are in the output buffer, and hands that buffer back.
C11_HashDoneOnce ==
    (op.name = "run" /\ cc.sha256_client) =>
        /\ obs.out = Serialize(op.arg, cc.hash_ctx, cc.hash_digest_size)
        /\ obs.callbacks = << [cb |-> "hash_done", result |-> "Ok", buf |-> obs.out] >>
        /\ obs.ret = <<"Ok">>

\* an HMAC run with a client: two passes, one callback with the second digest
C11_Witness ==
    /\ op.name = "run" /\ cc.sha256_client
    /\ cc.hash_algo.mode = "Hmac"
    /\ Len(obs.calls) = 2
    /\ Len(obs.callbacks) = 1
    /\ obs.callbacks[1].buf # op.arg

\* C12: once add_data or run has returned, the engine's in-flight buffer
\* slots hash_data_buff and hash_digest are empty: no buffer is held by the
\* engine and back with the caller at the same time.
C12_SlotsEmptyAfterReturn ==
    (op.name \in {"add_data", "run"}) =>
        /\ cc.hash_data_buff = <<>>
        /\ cc.hash_digest = <<>>

\* the algorithm a plain Configure operation names
ConfigureAlg ==
    IF op.name = "set_mode_md5" THEN Md5
    ELSE IF op.name = "set_mode_sha1" THEN Sha1
    ELSE IF op.name = "set_mode_sha224" THEN Sha224
    ELSE Sha256

\* digest size in 32-bit words
DigestWords(alg) ==
    IF alg = Md5 THEN 4 ELSE IF alg = Sha1 THEN 5 ELSE 8

\* C13: Configure (set_mode_md5 / sha1 / sha224 / sha256) in any state
\* returns Ok, selects that algorithm, loads its standard initial constants
\* into the digest context, sets the digest word count to 4/5/8/8 and
\* resets the byte count to 0.
C13_ConfigureEffect ==
    (op.name \in {"set_mode_md5", "set_mode_sha1", "set_mode_sha224", "set_mode_sha256"}) =>
        /\ obs.ret = <<"Ok">>
        /\ cc.hash_algo = [mode |-> "Digest", alg |-> ConfigureAlg]
        /\ SubSeq(cc.hash_ctx, 1, DigestWords(ConfigureAlg)) = InitValue(ConfigureAlg)
        /\ cc.hash_digest_size = DigestWords(ConfigureAlg)
        /\ cc.hash_total_size = 0

\* SHA-1 configured over the leftovers of a flushed add_data
C13_Witness ==
    /\ op.name = "set_mode_sha1"
    /\ cc.current_op = "Hash" /\ cc.hash_data_buff # <<>>
    /\ cc.hash_ctx[6] # ZeroWord
    /\ cc.hash_total_size = 0 /\ cc.hash_digest_size = 5

\* eight zero context words
ZeroCtx == << ZeroWord, ZeroWord, ZeroWord, ZeroWord, ZeroWord, ZeroWord, ZeroWord, ZeroWord >>

\* C14: clear_data zeroes the pending block buffer, the digest context and
\* the HMAC outer-pad context and leaves everything else unchanged: the
\* byte count, the algorithm, the digest size, usage_count, current_op and
\* all hardware registers.
C14_ClearDataFrame ==
    [][(op'.name = "clear_data") =>
          /\ cc' = [cc EXCEPT !.hash_data_queue = Zeros(BlockLen),
                              !.hash_ctx = ZeroCtx,
                              !.hash_hmac_opad_ctx = ZeroCtx]
          /\ regs' = regs
          /\ obs'.writes = <<>>]_vars

\* clear_data after a flushed add_data: the context is wiped, the count stays
C14_Witness ==
    /\ op.name = "clear_data"
    /\ cc.hash_total_size > 0 /\ cc.current_op = "Hash"
    /\ regs.hash # ZeroCtx
    /\ cc.hash_ctx = ZeroCtx

\* C15: entropy cancel() reports failure in every reachable state and
\* changes no driver state and no register.
C15_CancelFails ==
    [][(op'.name = "entropy_cancel") =>
          /\ obs'.ret = <<"FAIL">>
          /\ cc' = cc
          /\ regs' = regs
          /\ obs'.writes = <<>>
          /\ obs'.callbacks = <<>>]_vars

\* cancel() with an entropy client registered
C15_Witness ==
    /\ op.name = "entropy_cancel"
    /\ cc.trng_client
    /\ obs.ret = <<"FAIL">>

\* C16: current_op is Hash only while a block-processing call is in
\* progress: whenever none is (every state between operations, in
\* particular after add_data, run or HMAC configure has returned)
\* current_op = Idle.
C16_IdleBetweenOperations ==
    cc.current_op = "Idle"

\* C17: the interrupt handler reads the status register once and, for each
\* of the 8 cause bits, writes the interrupt-clear register for that cause
\* if and only if the bit was set in the value read.
C17_ClearIffSet ==
    (op.name = "handle_interrupt") =>
        \A k \in 1..Len(InterruptBits) :
            (InterruptBits[k] \in op.arg) <=>
                (\E j \in 1..Len(obs.writes) :
                    /\ obs.writes[j].reg = "interrupt_clear"
                    /\ obs.writes[j].val = {InterruptBits[k]})

\* C18: the interrupt handler never invokes a client callback and leaves
\* usage_count, current_op and all hash accumulation state unchanged, for
\* every combination of cause bits.
C18_HandlerFrame ==
    [][(op'.name = "handle_interrupt") =>
          /\ obs'.callbacks = <<>>
          /\ cc' = cc
          /\ regs'.hash = regs.hash
          /\ regs'.hash_len_lsb = regs.hash_len_lsb]_vars

\* all 8 causes handled at once while a client is registered and a hash
\* operation has run
C18_Witness ==
    /\ op.name = "handle_interrupt"
    /\ Cardinality(op.arg) = Len(InterruptBits)
    /\ cc.sha256_client /\ cc.current_op = "Hash" /\ cc.hash_total_size > 0
    /\ regs.interrupts = {"RNG"}

\* the byte count modulo the block size: the cursor in the pending block
Cursor == cc.hash_total_size % BlockLen

\* C19: after every add_data since the last Configure the stored pending
\* block buffer holds the unflushed tail of the message: its first
\* (total mod 64) bytes are the last (total mod 64) bytes appended.
C19_QueueHoldsTail ==
    (op.name = "add_data" /\ sess.stage = "open") =>
        /\ Cursor <= Len(sess.msg)
        /\ SubSeq(cc.hash_data_queue, 1, Cursor)
             = SubSeq(sess.msg, Len(sess.msg) - Cursor + 1, Len(sess.msg))

\* C20: each add_data call increases the byte count by exactly the number
\* of bytes appended, whether or not it flushes blocks through the
\* block-processing primitive.
C20_TotalCountsAppended ==
    (op.name = "add_data") =>
        cc.hash_total_size = op.size + Len(op.arg)

RECURSIVE BytesBefore(_, _)
\* the bytes submitted by the calls before call i
BytesBefore(calls, i) ==
    IF i <= 1 THEN 0 ELSE Len(calls[i - 1].data) + BytesBefore(calls, i - 1)

\* C21: in every block-processing call of a digest session the value
\* written to the hardware length registers is the number of message bytes
\* the hardware has absorbed since Configure (without the slice being
\* submitted and without pending bytes), so the length used for the final
\* padding is the number of bytes appended.
C21_LengthSoFar ==
    (sess.stage \in {"open", "done"} /\ sess.mode = "Digest") =>
        /\ \A i \in 1..Len(sess.subs) : sess.subs[i].len = BytesBefore(sess.subs, i)
        /\ sess.stage = "done" =>
               LET last == sess.subs[Len(sess.subs)]
               IN  last.len + Len(last.data) = Len(sess.msg)

\* C22: after HMAC configure with key K the outer-pad context is the state
\* obtained by absorbing the block (0x5c xor zero-padded K) from the initial
\* constants, the digest context the state obtained by absorbing
\* (0x36 xor zero-padded K) from the initial constants, both blocks are
\* processed non-final, and the byte count is 0.
C22_HmacConfigure ==
    (op.name = "set_mode_hmacsha256") =>
        /\ Len(obs.calls) = 2
        /\ obs.calls[1].data = StdKeyBlock(92, op.arg)
        /\ obs.calls[2].data = StdKeyBlock(54, op.arg)
        /\ \A i \in 1..2 : /\ ~obs.calls[i].is_final
                           /\ obs.calls[i].ctx = SHA256_INIT_VALUE
                           /\ obs.calls[i].alg = Sha256
        /\ cc.hash_hmac_opad_ctx
             = HwCompress(Sha256, SHA256_INIT_VALUE, StdKeyBlock(92, op.arg))
        /\ cc.hash_ctx
             = HwCompress(Sha256, SHA256_INIT_VALUE, StdKeyBlock(54, op.arg))
        /\ cc.hash_algo = [mode |-> "Hmac", alg |-> Sha256]
        /\ cc.hash_total_size = 0

\* HMAC configured over a byte count left by earlier data
C22_Witness ==
    /\ op.name = "set_mode_hmacsha256"
    /\ op.size > 0
    /\ obs.calls[1].len = op.size
    /\ cc.hash_total_size = 0
    /\ cc.hash_hmac_opad_ctx # cc.hash_ctx

\* C23: in HMAC finalization the second pass reloads the digest context
\* from the outer-pad context and submits, as one final block-processing
\* call, the inner digest's raw bytes in full (32 for SHA-256); the output
\* buffer is overwritten with the result of this second pass.
C23_HmacSecondPass ==
    (op.name = "run" /\ cc.hash_algo.mode = "Hmac") =>
        /\ Len(obs.calls) = 2
        /\ obs.calls[2].is_final
        /\ obs.calls[2].ctx = cc.hash_hmac_opad_ctx
        /\ Len(obs.calls[2].data) = DigestLen(Sha256)
        /\ obs.out = WordsToBytes(cc.hash_ctx)

\* C24: run serializes the digest context into the output buffer word by
\* word in big-endian order: for every i below the configured word count
\* output bytes 4i..4i+3 are the big-endian bytes of word i, and the output
\* bytes at or beyond 4 x word count are left unchanged.
C24_BigEndianOutput ==
    (op.name = "run") =>
        /\ Len(obs.out) = Len(op.arg)
        /\ \A i \in 0..(cc.hash_digest_size - 1) :
              /\ obs.out[4 * i + 1] = cc.hash_ctx[i + 1][1] \div 256
              /\ obs.out[4 * i + 2] = cc.hash_ctx[i + 1][1] % 256
              /\ obs.out[4 * i + 3] = cc.hash_ctx[i + 1][2] \div 256
              /\ obs.out[4 * i + 4] = cc.hash_ctx[i + 1][2] % 256
        /\ \A j \in (4 * cc.hash_digest_size + 1)..Len(op.arg) : obs.out[j] = op.arg[j]

\* an MD5 run: 16 digest bytes written, the other 16 bytes of the buffer kept
C24_Witness ==
    /\ op.name = "run"
    /\ cc.hash_digest_size = 4
    /\ SubSeq(obs.out, 1, 16) # SubSeq(op.arg, 1, 16)
    /\ SubSeq(obs.out, 17, 32) = SubSeq(op.arg, 17, 32)
    /\ cc.hash_ctx[1][1] \div 256 # cc.hash_ctx[1][2] % 256

\* the call wrote val to the scalar register reg
Wrote(c, reg, val) ==
    \E j \in c.first..c.last : obs.writes[j].reg = reg /\ obs.writes[j].val = val

\* every write of 1 to reg in the call is followed in the call by a write of 0
ClearedAgain(c, reg) ==
    \A j \in c.first..c.last :
        (obs.writes[j].reg = reg /\ obs.writes[j].val = 1) =>
            \E k \in (j + 1)..c.last : obs.writes[k].reg = reg /\ obs.writes[k].val = 0

\* C25: in every block-processing call the automatic hardware padding is
\* armed if and only if the data is non-empty and is_final is true, the
\* explicit pad-now trigger is armed if and only if the data is empty, the
\* two are never armed in the same call, and both are cleared again before
\* the call returns.
C25_PaddingArming ==
    \A i \in 1..Len(obs.calls) :
        LET c == obs.calls[i]
        IN  /\ Wrote(c, "auto_hw_padding", 1) <=> (c.data # <<>> /\ c.is_final)
            /\ Wrote(c, "pad_config", 1) <=> (c.data = <<>>)
            /\ ~(Wrote(c, "auto_hw_padding", 1) /\ Wrote(c, "pad_config", 1))
            /\ ClearedAgain(c, "auto_hw_padding")
            /\ ClearedAgain(c, "pad_config")
            /\ Wrote(c, "auto_hw_padding", 0) /\ Wrote(c, "pad_config", 0)
            /\ regs.auto_hw_padding = 0 /\ regs.pad_config = 0

\* an HMAC run: the first call pads an empty tail with the pad-now trigger,
\* the second pads its data automatically
C25_Witness ==
    /\ op.name = "run" /\ Len(obs.calls) = 2
    /\ obs.calls[1].data = <<>> /\ Wrote(obs.calls[1], "pad_config", 1)
    /\ obs.calls[2].data # <<>> /\ Wrote(obs.calls[2], "auto_hw_padding", 1)

\* C26: add_data never causes hardware padding: every block-processing call
\* it makes carries a non-empty slice whose length is a positive multiple
\* of 64 with is_final false, and arms neither padding mechanism.
C26_AddDataNeverPads ==
    (op.name = "add_data") =>
        \A i \in 1..Len(obs.calls) :
            LET c == obs.calls[i]
            IN  /\ c.data # <<>>
                /\ Len(c.data) % BlockLen = 0
                /\ ~c.is_final
                /\ ~Wrote(c, "pad_config", 1)
                /\ ~Wrote(c, "auto_hw_padding", 1)

\* the positions in the write log of the call's writes to the state registers
StateWrites(c) == {j \in c.first..c.last : obs.writes[j].reg = "hash"}

\* C27: in every block-processing call the digest context words are written
\* to the hardware state registers in strictly decreasing index order, so
\* state register 0 is written last, after every other state word and
\* after the length and algorithm-select registers.
C27_ReverseStateOrder ==
    \A i \in 1..Len(obs.calls) :
        LET c == obs.calls[i]
        IN  /\ Cardinality(StateWrites(c)) = Len(c.ctx)
            /\ \A j \in StateWrites(c) : obs.writes[j].val = c.ctx[obs.writes[j].idx + 1]
            /\ \A j, k \in StateWrites(c) :
                   j < k => obs.writes[j].idx > obs.writes[k].idx
            /\ \A j \in StateWrites(c) :
                   obs.writes[j].idx = 0 =>
                       \A reg \in {"hash_len_lsb", "hash_len_msb", "control"} :
                           \E k \in c.first..(j - 1) : obs.writes[k].reg = reg

\* two calls of one add_data, each loading a different running state
C27_Witness ==
    /\ op.name = "add_data" /\ Len(obs.calls) = 2
    /\ obs.calls[1].ctx # obs.calls[2].ctx
    /\ \E j \in StateWrites(obs.calls[2]) :
           obs.writes[j].idx = 0 /\ obs.writes[j].val # ZeroWord

\* the operations of the hash engine
HashOps ==
    {"set_mode_md5", "set_mode_sha1", "set_mode_sha224", "set_mode_sha256",
     "set_mode_hmacsha256", "digest_set_client", "add_data", "run", "clear_data"}

\* C28: every block-processing call acquires the power domain at entry and
\* releases it before returning, so usage_count at return equals
\* usage_count at entry: a hash operation started at usage_count 0 leaves
\* the power domain off, and a call made while another user holds the
\* domain does not power it off.
C28_CallBalancesPower ==
    /\ \A i \in 1..Len(obs.calls) :
           LET c == obs.calls[i]
           IN  /\ c.usage_out = c.usage_in
               /\ \A j \in c.first..c.last :
                      obs.writes[j].reg \notin {"power_enable", "dma_clk_enable"}
                          => obs.writes[j].power = 1
               /\ Wrote(c, "power_enable", 1) <=> (c.usage_in = 0)
               /\ Wrote(c, "power_enable", 0) <=> (c.usage_in = 0)
               /\ c.usage_in = 0 => obs.writes[c.first].reg = "power_enable"
    /\ (op.name \in HashOps) =>
           <<cc.usage_count, regs.power_enable>> = op.pre

\* a two-call add_data made while a user holds the power domain
C28_Witness ==
    /\ op.name = "add_data" /\ op.pre = <<1, 1>>
    /\ Len(obs.calls) = 2
    /\ obs.calls[2].usage_in = 1
    /\ regs.power_enable = 1

\* the writes of call c that start the engine on its input
Started(c) ==
    {j \in c.first..c.last :
        \/ obs.writes[j].reg \in {"src_lli_word0", "src_lli_word1", "interrupt_clear"}
        \/ obs.writes[j].reg = "pad_config" /\ obs.writes[j].val = 1}

\* the writes of call c that stop the hash module and release the power
Stopped(c) ==
    {j \in c.first..c.last :
        \/ obs.writes[j].reg \in {"hash_clk_enable", "power_enable"} /\ obs.writes[j].val = 0
        \/ obs.writes[j].reg \in {"auto_hw_padding", "pad_config"} /\ obs.writes[j].val = 0}

\* C29: within each block-processing call the state words and the length
\* counter are read back after the crypto-busy and DMA-busy flags have
\* cleared and before the hash sub-clock is disabled and the power domain
\* released.
C29_ReadbackWindow ==
    /\ Len(obs.reads) = Len(obs.calls)
    /\ \A i \in 1..Len(obs.calls) :
           LET c == obs.calls[i]
               r == obs.reads[i]
           IN  /\ Started(c) # {} /\ Stopped(c) # {}
               /\ \A j \in Started(c) : j <= r.at
               /\ \A j \in Stopped(c) : j > r.at
               /\ r.busy = <<0, 0>>
               /\ r.clk = 1 /\ r.power = 1
    /\ Len(obs.calls) > 0 /\ op.name = "add_data" =>
           /\ cc.hash_ctx = obs.reads[Len(obs.reads)].ctx
           /\ cc.hash_total_size = obs.reads[Len(obs.reads)].len

\* add_data from power off: the call reads a state the input has changed,
\* then switches the clock and the power off
C29_Witness ==
    /\ op.name = "add_data" /\ op.pre = <<0, 0>> /\ Len(obs.calls) >= 1
    /\ Len(obs.calls[1].data) = BlockLen
    /\ obs.reads[1].ctx # obs.calls[1].ctx
    /\ obs.reads[1].len = obs.calls[1].len + BlockLen
    /\ regs.hash_clk_enable = 0 /\ regs.power_enable = 0

\* C30: only the usage_count transition 0 -> 1 powers on and only 1 -> 0
\* powers off: enable() at usage_count >= 1 and disable() at usage_count
\* >= 2 change usage_count by exactly one and write no register.
C30_InnerTransitionsSilent ==
    [][/\ (op'.name = "enable" /\ cc.usage_count >= 1) =>
              /\ cc' = [cc EXCEPT !.usage_count = @ + 1]
              /\ obs'.writes = <<>> /\ regs' = regs
       /\ (op'.name = "disable" /\ cc.usage_count >= 2) =>
              /\ cc' = [cc EXCEPT !.usage_count = @ - 1]
              /\ obs'.writes = <<>> /\ regs' = regs
       /\ (op'.name = "enable" /\ cc.usage_count = 0) =>
              /\ obs'.writes # <<>> /\ regs'.power_enable = 1
       /\ (op'.name = "disable" /\ cc.usage_count = 1) =>
              /\ obs'.writes # <<>> /\ regs'.power_enable = 0]_vars

\* a second user has come and gone while the first holds the domain
C30_Witness ==
    /\ op.name = "disable" /\ op.pre = <<2, 1>>
    /\ cc.usage_count = 1 /\ obs.writes = <<>>
    /\ regs.power_enable = 1 /\ regs.dma_clk_enable = 1
    /\ regs.interrupt_mask = {"AXI_ERROR", "PKA_EXP", "RNG"}

\* the DMA-completion interrupt sources
DmaSources ==
    {"SRAM_TO_DIN", "DOUT_TO_SRAM", "MEM_TO_DIN", "DOUT_TO_MEM", "SYM_DMA_COMPLETED"}

\* C31: in every reachable state the DMA-completion interrupt sources are
\* masked; the power-on transition unmasks only AXI_ERROR, PKA_EXP and RNG,
\* and the power-off transition masks every source.  A source is unmasked
\* when enable() has SET its bit in interrupt_mask, masked when the bit is
\* clear.
C31_DmaSourcesMasked ==
    /\ regs.interrupt_mask \cap DmaSources = {}
    /\ \A j \in 1..Len(obs.writes) :
           obs.writes[j].reg = "interrupt_mask" => obs.writes[j].val \cap DmaSources = {}
    /\ (op.name = "enable" /\ op.pre[1] = 0) =>
           regs.interrupt_mask = {"AXI_ERROR", "PKA_EXP", "RNG"}
    /\ (op.name = "disable" /\ op.pre[1] = 1) => regs.interrupt_mask = {}
    /\ regs.power_enable = 0 => regs.interrupt_mask = {}

\* the last user has released an engine that was powered on with the three
\* sources unmasked
C31_Witness ==
    /\ op.name = "disable" /\ op.pre = <<1, 1>>
    /\ regs.power_enable = 0 /\ regs.interrupt_mask = {}
    /\ \E j \in 1..Len(obs.writes) :
           /\ obs.writes[j].reg = "interrupt_mask" /\ obs.writes[j].val = {}
           /\ obs.writes[j].power = 1

\* the writes to the interrupt mask register in a write log
MaskWrites(w) == {j \in 1..Len(w) : w[j].reg = "interrupt_mask"}

\* C32: when the RNG cause bit is set the interrupt handler clears the RNG
\* bit of the interrupt mask (the source is masked again) and leaves every
\* other bit of the mask unchanged; when the RNG cause bit is not set the
\* handler does not touch the interrupt mask.
C32_HandlerRemasksRng ==
    [][op'.name = "handle_interrupt" =>
          IF "RNG" \in regs.interrupts
          THEN /\ regs'.interrupt_mask = regs.interrupt_mask \ {"RNG"}
               /\ \A j \in MaskWrites(obs'.writes) :
                      obs'.writes[j].val = regs.interrupt_mask \ {"RNG"}
               /\ MaskWrites(obs'.writes) # {}
          ELSE /\ regs'.interrupt_mask = regs.interrupt_mask
               /\ MaskWrites(obs'.writes) = {}]_vars

\* the handler has run on an enabled engine with RNG among several causes
C32_Witness ==
    /\ op.name = "handle_interrupt" /\ {"RNG", "AXI_ERROR"} \subseteq op.arg
    /\ regs.power_enable = 1
    /\ regs.interrupt_mask = {"AXI_ERROR", "PKA_EXP"}
    /\ MaskWrites(obs.writes) # {}

C34_CompletionNotLost ==
    pc = "wait_din" => (din_done(regs) \/ hw.dma = "inflight")

\* C35: no engine register is written while the power domain is disabled:
\* every register write made by enable, disable, the block-processing
\* primitive, set_key, set_iv, start_message and the interrupt handler
\* happens while the power-enable bit is set (the power-enable bit itself
\* is not an engine register).
C35_WritesUnderPower ==
    \A j \in 1..Len(obs.writes) :
        obs.writes[j].reg # "power_enable" => obs.writes[j].power = 1

\* the Configure call named by the last operation, made on machine m
SameConfigure(m) ==
    CASE op.name = "set_mode_md5"        -> set_mode_md5(m)
      [] op.name = "set_mode_sha1"       -> set_mode_sha1(m)
      [] op.name = "set_mode_sha224"     -> set_mode_sha224(m)
      [] op.name = "set_mode_sha256"     -> set_mode_sha256(m)
      [] op.name = "set_mode_hmacsha256" -> set_mode_hmacsha256(m, op.arg)
      [] OTHER                           -> m

\* the state and length registers as the set-up of the next
\* block-processing call would write them from driver state c
NextSetup(c) ==
    hash_setup([cc |-> c, regs |-> RegsInit, obs |-> ObsInit]).obs.writes

\* C36: Configure fully determines the hash state regardless of history:
\* an engine with any prior history ends a Configure call with the
\* digest_context (all 8 words), total_bytes_processed and pending cursor
\* of a freshly constructed engine that executes the same call, and its
\* next block-processing call writes the same values to the hardware state
\* and length registers.
C36_ConfigureForgetsHistory ==
    (op.name \in {"set_mode_md5", "set_mode_sha1", "set_mode_sha224",
                  "set_mode_sha256", "set_mode_hmacsha256"}) =>
        LET fresh == SameConfigure(Machine0).cc
        IN  /\ cc.hash_ctx = fresh.hash_ctx
            /\ cc.hash_total_size = fresh.hash_total_size
            /\ cc.hash_total_size % BlockLen = fresh.hash_total_size % BlockLen
            /\ NextSetup(cc) = NextSetup(fresh)

\* C37: a successful hash completion is delivered only in a configured
\* state: run() reports Ok or invokes hash_done(Ok) only if a Configure
\* (set_mode_*) has set the algorithm beforehand; run() on an engine whose
\* algorithm is Invalid and whose digest size is 0 signals no success.
C37_SuccessOnlyConfigured ==
    (/\ op.name = "run"
     /\ \/ obs.ret = <<"Ok">>
        \/ \E i \in 1..Len(obs.callbacks) :
               obs.callbacks[i].cb = "hash_done" /\ obs.callbacks[i].result = "Ok")
        => (cc.hash_algo.mode # "Invalid" /\ cc.hash_digest_size > 0)

\* the indices add_data uses into its copy of the pending block, from the
\* byte count it found and the length n of its input
AddDataInBounds(size, n) ==
    LET cursor_in_block == size % Len(cc.hash_data_queue)
        left_in_block   == Len(cc.hash_data_queue) - cursor_in_block
    IN  /\ cursor_in_block < BlockLen
        /\ IF n < left_in_block
           THEN cursor_in_block + n <= Len(cc.hash_data_queue)
           ELSE /\ left_in_block <= n
                /\ (n - left_in_block) % Len(cc.hash_data_queue) <= Len(cc.hash_data_queue)

\* the indices run uses into the pending block and into the output buffer
RunInBounds(size, digest) ==
    /\ size % Len(cc.hash_data_queue) <= Len(cc.hash_data_queue)
    /\ 4 * cc.hash_digest_size <= Len(digest)
    /\ Len(obs.out) = DigestBufLen
    /\ \A i \in 1..Len(obs.calls) : Len(obs.calls[i].data) < BlockLen

\* C38: in every reachable state the pending-buffer cursor
\* (total_bytes_processed mod 64) is < 64 and the digest word count is one
\* of 0, 4, 5, 8, matching the configured algorithm once configured, so
\* every index add_data uses into the 64-byte pending buffer and run uses
\* into the 32-byte output buffer is in bounds.
C38_IndicesInBounds ==
    /\ Len(cc.hash_data_queue) = BlockLen
    /\ Len(cc.hash_ctx) = 8
    /\ cc.hash_total_size % Len(cc.hash_data_queue) < BlockLen
    /\ cc.hash_digest_size \in {0, 4, 5, 8}
    /\ cc.hash_digest_size =
           IF cc.hash_algo.mode = "Invalid" THEN 0 ELSE DigestWords(cc.hash_algo.alg)
    /\ 4 * cc.hash_digest_size <= DigestBufLen
    /\ op.name = "add_data" => AddDataInBounds(op.size, Len(op.arg))
    /\ op.name = "run" => RunInBounds(op.size, op.arg)

\* run on a SHA-1 session with pending bytes: 5 words go to the first 20
\* bytes of the buffer, the rest of it is left alone
C38_Witness ==
    /\ op.name = "run" /\ cc.hash_digest_size = 5
    /\ op.size % BlockLen > 0
    /\ Len(obs.calls) = 1 /\ Len(obs.calls[1].data) = op.size % BlockLen
    /\ \A j \in 21..DigestBufLen : obs.out[j] = op.arg[j]

\* C39: crypt() called while the AES busy flag is clear is a no-op that
\* reports no error: it returns None, writes no register, moves no data
\* into the destination buffer, retains neither buffer in the engine and
\* never invokes the block-cipher client's completion callback.
C39_CryptIdleNoOp ==
    [][(op'.name = "crypt" /\ regs.aes_busy = 0) =>
          /\ obs'.ret = <<"None">>
          /\ obs'.writes = <<>> /\ regs' = regs
          /\ obs'.out = <<>>
          /\ cc' = cc
          /\ obs'.callbacks = <<>>]_vars

\* crypt with a source buffer on an idle AES core with a client registered
C39_Witness ==
    /\ op.name = "crypt" /\ op.arg.source # <<>>
    /\ regs.aes_busy = 0 /\ cc.aes_client
    /\ obs.ret = <<"None">> /\ obs.callbacks = <<>>

====
